---- MODULE Spec2Model ----
(***************************************************************************)
(* A model of peiplib's L-curve routines (src/peiplib/lcurve.py) and of    *)
(* its GSVD / cosine-sine decomposition (src/peiplib/linalg.py).           *)
(*                                                                         *)
(* Each routine is a small state machine over its own variables; a         *)
(* specification per routine draws the routine's inputs in Init and then   *)
(* runs the routine statement group by statement group.                    *)
(*                                                                         *)
(* Floating-point values are modelled exactly: a value is a rational, or   *)
(* one of the IEEE specials NaN and Inf.  Sequences are 1-based in TLA+;   *)
(* every index that the model stores or reports is the 0-based index of    *)
(* the Python source.                                                      *)
(***************************************************************************)
EXTENDS Integers, Sequences, FiniteSets, TLC

VARIABLES
    \* ---- corner_maxcurv (lcurve.py:206-272)
    samples,        \* the input: samples[i+1] = <<ln rhos[i], ln etas[i]>>
    kappa,          \* the curvature array of line 265
    i_corner,       \* the result of np.nanargmax (line 267)
    corner_pc,      \* position in corner_maxcurv
    corner_result,  \* what the call ends in: a triple (by index) or an error
    \* ---- tikh_svd / tikh_gsvd, the loops (lcurve.py:60-89, 142-203)
    sweep_in,       \* the arguments of the call (a record)
    alphas,         \* the grid of regularization parameters
    lams,           \* gsvd: column norms of LAM (line 148)
    mus,            \* gsvd: column norms of MU (line 149)
    gammas,         \* gsvd: lams / mus (line 150)
    Y,              \* gsvd: transpose of inv(X) (line 181)
    d_proj,         \* svd: U.T d, truncated (lines 67, 70)
    dr,             \* svd: the misfit of the projection (line 68)
    ireg,           \* the loop index over the grid
    f,              \* the filter factors of the current grid point
    rhos,           \* squares of the residual norms computed so far
    etas,           \* squares of the solution (semi)norms computed so far
    sweep_pc,       \* position in the sweep
    sweep_result,   \* "none", "returned" or the error raised
    \* ---- tikh_svd / tikh_gsvd, the grid (lcurve.py:54-58, 152-169)
    grid_in,        \* the arguments that decide the grid (a record)
    start,          \* the local start, log2 of its value
    stop,           \* the local stop, log2 of its value
    picked,         \* <<start, stop>> as first chosen, before line 57 / 168
    grid,           \* the local alphas: log2 of each grid value
    grid_i,         \* the loop index
    grid_rhos,      \* rhos: for each entry, the grid value it was computed for
    grid_etas,      \* etas: likewise
    grid_pc,        \* position in the sweep
    grid_result,    \* "none", "returned" or the error raised
    \* ---- gsvd and _csd (linalg.py:117-311), by the shapes of the arrays
    gsvd_in,        \* A is m-by-p, B is n-by-pb; full_matrices, compute_all
    gsvd_m,         \* the local m (line 266, 278)
    gsvd_n,         \* the local n (line 267, 283)
    shapeA,         \* the shape of the local A
    shapeB,         \* the shape of the local B
    shapeQA,        \* the shape of QA; <<0>> for np.array([])
    shapeQB,        \* the shape of QB
    shapeQ,         \* the shape of Q (line 285)
    shapeR,         \* the shape of R (line 285)
    qr_calls,       \* how many times gsvd has called sla.qr
    csd_calls,      \* how many times _csd has been entered
    csd_stack,      \* the frames of the running _csd calls, innermost last
    csd_ret,        \* what the last finished _csd call returned
    gsvd_pc,        \* position in gsvd
    gsvd_result,    \* what the call ends in
    \* ---- corner_mdf_svd / corner_mdf_gsvd (lcurve.py:275-434)
    mdf_in,         \* variant, alpha_init, tol, maxiter, the default bound
    alpha_init,     \* the local alpha_init (lines 319-321, 405-407)
    alpha_pre,      \* the local alpha_pre
    alpha_next,     \* the local alpha_next
    change,         \* the local change
    counter,        \* the local counter
    f_evals,        \* how many times f has been called
    sweep_calls,    \* the sweeps called so far, outside f: <<npoints, alpha_min, alpha_max>>
    mdf_pc,         \* position in the routine
    mdf_result,     \* what the call ends in
    \* ---- the arrays of a call of a public operation: which names share a
    \* ---- buffer, and which buffers are written in place
    fx_in,          \* the operation called and the branches its input takes
    fx_prog,        \* the statements of the call, in order
    fx_env,         \* the buffer each name is bound to
    fx_next,        \* the number of buffers allocated inside the call
    fx_written,     \* the buffers written in place during the call
    fx_input,       \* how often each caller-supplied array has been changed
    fx_pc,          \* the statement the call is at
    fx_call         \* the number of the call on these inputs

cornerVars == <<samples, kappa, i_corner, corner_pc, corner_result>>

sweepVars == <<sweep_in, alphas, lams, mus, gammas, Y, d_proj, dr, ireg, f,
               rhos, etas, sweep_pc, sweep_result>>

gridVars == <<grid_in, start, stop, picked, grid, grid_i, grid_rhos, grid_etas,
              grid_pc, grid_result>>

gsvdVars == <<gsvd_in, gsvd_m, gsvd_n, shapeA, shapeB, shapeQA, shapeQB, shapeQ,
              shapeR, qr_calls, csd_calls, csd_stack, csd_ret, gsvd_pc,
              gsvd_result>>

mdfVars == <<mdf_in, alpha_init, alpha_pre, alpha_next, change, counter, f_evals,
             sweep_calls, mdf_pc, mdf_result>>

fxVars == <<fx_in, fx_prog, fx_env, fx_next, fx_written, fx_input, fx_pc, fx_call>>

vars == <<cornerVars, sweepVars, gridVars, gsvdVars, mdfVars, fxVars>>

----------------------------------------------------------------------------
(* Generic helpers *)

Max(a, b) == IF a >= b THEN a ELSE b

Min(a, b) == IF a <= b THEN a ELSE b

\* range(lo, hi) as a set of 0-based indices
Range(lo, hi) == {i \in lo..(hi - 1) : TRUE}

----------------------------------------------------------------------------
(* corner_maxcurv *)

MaxN == 4       \* largest number of samples drawn
MaxX == 2       \* ln rho is drawn from 0..MaxX
MaxY == 1       \* ln eta is drawn from 0..MaxY

Points == (0..MaxX) \X (0..MaxY)

NaN == [nan |-> TRUE, num |-> 0, den |-> 1]

\* a non-negative rational num/den, den > 0
Rat(n, d) == [nan |-> FALSE, num |-> n, den |-> d]

\* the length of the slices xs[:-2], xs[1:-1], xs[2:] of an array of N items
SliceLen(N) == Max(N - 2, 0)

\* (x1 - x2)**2 + (y1 - y2)**2: the square of a side length
SideSq(P, Q) == (P[1] - Q[1]) * (P[1] - Q[1]) + (P[2] - Q[2]) * (P[2] - Q[2])

\* 16 * areas**2 by Heron's formula, 16*s*(s-a)*(s-b)*(s-c) with s = (a+b+c)/2,
\* written in the squared side lengths a2, b2, c2
Areas16Sq(a2, b2, c2) ==
    2 * (a2 * b2 + b2 * c2 + c2 * a2) - (a2 * a2 + b2 * b2 + c2 * c2)

\* (1.0 / radii)**2 for radii = (a*b*c) / (4.0*areas), in IEEE arithmetic:
\* 0/0 is NaN, x/0 is inf and 1/inf is 0
InvRadiiSq(a2, b2, c2) ==
    LET area16 == Areas16Sq(a2, b2, c2)
        abc2   == a2 * b2 * c2
    IN  IF area16 = 0
        THEN IF abc2 = 0 THEN NaN ELSE Rat(0, 1)
        ELSE Rat(area16, abc2)

\* the curvature of the triangle whose first vertex is sample t (0-based)
TriangleKappa(smp, t) ==
    LET P1 == smp[t + 1]
        P2 == smp[t + 2]
        P3 == smp[t + 3]
    IN  InvRadiiSq(SideSq(P1, P2), SideSq(P2, P3), SideSq(P3, P1))

\* kappa = np.hstack([0.0, 1.0 / radii, 0.0]); entries are squares of |kappa|
KappaArray(smp) ==
    LET inner == [t \in 1..SliceLen(Len(smp)) |-> TriangleKappa(smp, t - 1)]
    IN  <<Rat(0, 1)>> \o inner \o <<Rat(0, 1)>>

\* kappa[1:-1] with every element
KappaWhole(kap) == kap

\* kappa[1:-1]
KappaSlice(kap) == SubSeq(kap, 2, Len(kap) - 1)

\* a < b for two non-NaN entries
RatLess(a, b) == a.num * b.den < b.num * a.den

\* np.nanargmax(np.abs(v)): the first 0-based index of the largest entry that
\* is not NaN; ValueError on an empty or an all-NaN array
NanArgmax(v) ==
    LET live == {i \in 1..Len(v) : ~v[i].nan}
    IN  IF Len(v) = 0 THEN [err |-> "ValueError: empty sequence", idx |-> 0]
        ELSE IF live = {} THEN [err |-> "ValueError: All-NaN slice", idx |-> 0]
        ELSE LET best == CHOOSE i \in live :
                            /\ \A j \in live : ~RatLess(v[i], v[j])
                            /\ \A j \in live : j < i => RatLess(v[j], v[i])
             IN  [err |-> "", idx |-> best - 1]

NoResult == [kind |-> "none", index |-> 0]

CornerIdle ==
    /\ samples = <<>>
    /\ kappa = <<>>
    /\ i_corner = 0
    /\ corner_pc = "idle"
    /\ corner_result = NoResult

CornerInit ==
    /\ samples \in UNION {[1..N -> Points] : N \in 0..MaxN}
    /\ kappa = <<>>
    /\ i_corner = 0
    /\ corner_pc = "curvature"
    /\ corner_result = NoResult

\* lines 238-265
CornerCurvature ==
    /\ corner_pc = "curvature"
    /\ kappa' = KappaArray(samples)
    /\ corner_pc' = "argmax"
    /\ UNCHANGED <<samples, i_corner, corner_result>>
    /\ UNCHANGED <<sweepVars, gridVars, gsvdVars, mdfVars, fxVars>>

\* line 267
CornerArgmax ==
    /\ corner_pc = "argmax"
    /\ LET r == NanArgmax(KappaSlice(kappa))
       IN  IF r.err # ""
           THEN /\ corner_result' = [kind |-> r.err, index |-> 0]
                /\ corner_pc' = "done"
                /\ UNCHANGED i_corner
           ELSE /\ i_corner' = r.idx
                /\ corner_pc' = "return"
                /\ UNCHANGED corner_result
    /\ UNCHANGED <<samples, kappa>>
    /\ UNCHANGED <<sweepVars, gridVars, gsvdVars, mdfVars, fxVars>>

\* lines 268-272: the triple is (rhos[i_corner], etas[i_corner], alphas[i_corner])
CornerReturn ==
    /\ corner_pc = "return"
    /\ corner_result' = [kind |-> "triple", index |-> i_corner]
    /\ corner_pc' = "done"
    /\ UNCHANGED <<samples, kappa, i_corner>>
    /\ UNCHANGED <<sweepVars, gridVars, gsvdVars, mdfVars, fxVars>>

----------------------------------------------------------------------------
(* IEEE values: a rational n/d (d > 0, in lowest terms), +-inf, or NaN *)

Abs(x) == IF x < 0 THEN -x ELSE x

Sign(x) == IF x < 0 THEN -1 ELSE IF x > 0 THEN 1 ELSE 0

RECURSIVE Gcd(_, _)
Gcd(a, b) == IF b = 0 THEN a ELSE Gcd(b, a % b)

XNaN == [k |-> "nan", n |-> 0, d |-> 1]

XInf(sgn) == [k |-> "inf", n |-> sgn, d |-> 1]

Fin(n, d) ==
    LET g == Gcd(Abs(n), d)
    IN  [k |-> "fin", n |-> n \div g, d |-> d \div g]

XInt(n) == [k |-> "fin", n |-> n, d |-> 1]

XIsNaN(a) == a.k = "nan"

XIsInf(a) == a.k = "inf"

XIsZero(a) == a.k = "fin" /\ a.n = 0

XNeg(a) == [a EXCEPT !.n = -a.n]

XAdd(a, b) ==
    IF XIsNaN(a) \/ XIsNaN(b) THEN XNaN
    ELSE IF XIsInf(a) /\ XIsInf(b) THEN (IF a.n = b.n THEN a ELSE XNaN)
    ELSE IF XIsInf(a) THEN a
    ELSE IF XIsInf(b) THEN b
    ELSE Fin(a.n * b.d + b.n * a.d, a.d * b.d)

XSub(a, b) == XAdd(a, XNeg(b))

XMul(a, b) ==
    IF XIsNaN(a) \/ XIsNaN(b) THEN XNaN
    ELSE IF XIsInf(a) \/ XIsInf(b)
         THEN (IF XIsZero(a) \/ XIsZero(b) THEN XNaN
               ELSE XInf(Sign(a.n) * Sign(b.n)))
    ELSE Fin(a.n * b.n, a.d * b.d)

\* a / b with numpy's float64 rules: x/0 is +-inf, 0/0 and inf/inf are NaN
XDiv(a, b) ==
    IF XIsNaN(a) \/ XIsNaN(b) THEN XNaN
    ELSE IF XIsInf(b) THEN (IF XIsInf(a) THEN XNaN ELSE XInt(0))
    ELSE IF XIsZero(b)
         THEN (IF XIsZero(a) THEN XNaN ELSE XInf(Sign(a.n)))
    ELSE IF XIsInf(a) THEN XInf(Sign(a.n) * Sign(b.n))
    ELSE Fin(a.n * b.d * Sign(b.n), a.d * Abs(b.n))

\* a <= b; every comparison with NaN is false
XLeq(a, b) ==
    IF XIsNaN(a) \/ XIsNaN(b) THEN FALSE
    ELSE IF XIsInf(a) THEN (a.n < 0 \/ (XIsInf(b) /\ b.n > 0))
    ELSE IF XIsInf(b) THEN b.n > 0
    ELSE a.n * b.d <= b.n * a.d

XGeq(a, b) == XLeq(b, a)

\* the sum of the squares of a vector's entries: nla.norm(v)**2
RECURSIVE SumSq(_)
SumSq(v) ==
    IF Len(v) = 0 THEN XInt(0)
    ELSE XAdd(XMul(Head(v), Head(v)), SumSq(Tail(v)))

\* np.dot of two vectors of the same length
RECURSIVE Dot(_, _)
Dot(u, v) ==
    IF Len(u) = 0 THEN XInt(0)
    ELSE XAdd(XMul(Head(u), Head(v)), Dot(Tail(u), Tail(v)))

\* matrices are sequences of rows
NRows(M) == Len(M)

Column(M, j) == [i \in 1..Len(M) |-> M[i][j]]

\* np.dot(M, v) for a matrix with nc columns
MatVec(M, v) == [i \in 1..Len(M) |-> Dot(M[i], v)]

\* np.dot(M.T, v) for a matrix with nc columns
MatTVec(M, nc, v) == [j \in 1..nc |-> Dot(Column(M, j), v)]

\* a vector of integers as a vector of IEEE values
XVec(v) == [i \in 1..Len(v) |-> XInt(v[i])]

XMat(M) == [i \in 1..Len(M) |-> XVec(M[i])]

\* the square root of a perfect square
ISqrt(x) == CHOOSE r \in 0..x : r * r = x

----------------------------------------------------------------------------
(* tikh_svd and tikh_gsvd: the sweep over the grid                          *)
(* rhos and etas hold the SQUARES of the norms the code stores (a norm is   *)
(* the square root of a sum of squares, irrational in general); two         *)
(* non-negative values compare as their squares do, and NaN stays NaN.      *)

MaxM == 3        \* rows of G
MaxCols == 2     \* columns of G
MaxS == 2        \* singular values, and the diagonal of LAM, are at most this
MaxMu == 1       \* the diagonal of MU is drawn from 0..MaxMu
MaxXd == 2       \* the diagonal of X is drawn from 1..MaxXd
MaxD == 1        \* entries of d are drawn from 0..MaxD
MaxAlpha == 2    \* grid values are drawn from 1..MaxAlpha
MaxPoints == 2   \* npoints is at most this

\* the grids loglinspace(start, stop, npoints) can return for start >= stop:
\* positive and non-increasing
Grids(np) ==
    {a \in [1..np -> 1..MaxAlpha] :
        \A i \in 1..np : \A j \in 1..np : i < j => a[i] >= a[j]}

\* an r-by-c matrix with the entries of dg on the diagonal shifted right by off
DiagMat(r, c, dg, off) ==
    [i \in 1..r |-> [j \in 1..c |->
        IF j = i + off /\ i <= Len(dg) THEN dg[i] ELSE 0]]

\* the first c columns of the r-by-r identity, and the same in reverse order
IdCols(r, c) == [i \in 1..r |-> [j \in 1..c |-> IF i = j THEN 1 ELSE 0]]

RevCols(r, c) == [i \in 1..r |-> [j \in 1..c |-> IF i = c + 1 - j THEN 1 ELSE 0]]

\* singular values: positive, in descending order
SingularValues(p) ==
    {s \in [1..p -> 1..MaxS] : \A i \in 1..p : \A j \in 1..p : i < j => s[i] >= s[j]}

\* arguments of tikh_svd: U is m-by-n with orthonormal columns, s has p <= n
\* entries, d has m entries
SvdInputs(m, n, p) ==
    {[variant |-> "svd", m |-> m, n |-> n, U |-> U, s |-> s, d |-> d] :
        U \in {IdCols(m, n), RevCols(m, n)},
        s \in SingularValues(p),
        d \in [1..m -> 0..MaxD]}

\* arguments of tikh_gsvd that are a GSVD of (G, L): G = U LAM X^T and
\* L = V MU X^T with U = I, V = I and X diagonal
GsvdInput(m, n, pl, ld, md, xd, d) ==
    LET LAM == DiagMat(m, n, ld, IF m < n THEN n - m ELSE 0)
        MU  == DiagMat(pl, n, md, 0)
    IN  [variant |-> "gsvd", m |-> m, n |-> n, pl |-> pl,
         U |-> IdCols(m, m), X |-> DiagMat(n, n, xd, 0),
         LAM |-> LAM, MU |-> MU, d |-> d,
         G |-> [i \in 1..m |-> [j \in 1..n |-> LAM[i][j] * xd[j]]],
         L |-> [i \in 1..pl |-> [j \in 1..n |-> MU[i][j] * xd[j]]]]

GsvdInputs(m, n, pl) ==
    {GsvdInput(m, n, pl, ld, md, xd, d) :
        ld \in [1..Min(m, n) -> 0..MaxS],
        md \in [1..pl -> 0..MaxMu],
        xd \in [1..n -> 1..MaxXd],
        d \in [1..m -> 0..MaxD]}

EmptySeq == <<>>

SweepIdle ==
    /\ sweep_in = [variant |-> "none"]
    /\ alphas = EmptySeq
    /\ lams = EmptySeq
    /\ mus = EmptySeq
    /\ gammas = EmptySeq
    /\ Y = EmptySeq
    /\ d_proj = EmptySeq
    /\ dr = XInt(0)
    /\ ireg = 0
    /\ f = EmptySeq
    /\ rhos = EmptySeq
    /\ etas = EmptySeq
    /\ sweep_pc = "idle"
    /\ sweep_result = "none"

SweepInit ==
    /\ \E m \in 1..MaxM :
          \/ \E n \in 1..Min(m, MaxCols) : \E p \in 1..n : sweep_in \in SvdInputs(m, n, p)
          \/ \E n \in 1..MaxCols : \E pl \in 1..n : sweep_in \in GsvdInputs(m, n, pl)
    /\ \E np \in 0..MaxPoints : alphas \in Grids(np)
    /\ lams = EmptySeq
    /\ mus = EmptySeq
    /\ gammas = EmptySeq
    /\ Y = EmptySeq
    /\ d_proj = EmptySeq
    /\ dr = XInt(0)
    /\ ireg = 0
    /\ f = EmptySeq
    /\ rhos = EmptySeq
    /\ etas = EmptySeq
    /\ sweep_pc = "setup"
    /\ sweep_result = "none"

npoints == Len(alphas)

\* ---- tikh_svd

\* s2 / (s2 + alphas[i]**2)
SvdFilter(sv, alpha) ==
    XDiv(XInt(sv * sv), XInt(sv * sv + alpha * alpha))

\* nla.norm(f * d_proj_scale)**2 with d_proj_scale = d_proj / s
SvdEtaSq(s, dp, alpha) ==
    SumSq([i \in 1..Len(s) |->
              XMul(SvdFilter(s[i], alpha), XDiv(dp[i], XInt(s[i])))])

\* nla.norm((1 - f) * d_proj)**2
SvdRhoSq(s, dp, alpha) ==
    SumSq([i \in 1..Len(s) |->
              XMul(XSub(XInt(1), SvdFilter(s[i], alpha)), dp[i])])

\* lines 60-77
TikhSvdProject ==
    /\ sweep_pc = "setup"
    /\ sweep_in.variant = "svd"
    /\ LET full == MatTVec(XMat(sweep_in.U), sweep_in.n, XVec(sweep_in.d))
       IN  /\ dr' = XSub(SumSq(XVec(sweep_in.d)), SumSq(full))
           /\ d_proj' = SubSeq(full, 1, Len(sweep_in.s))
    /\ sweep_pc' = "loop"
    /\ UNCHANGED <<sweep_in, alphas, lams, mus, gammas, Y, ireg, f, rhos, etas,
                   sweep_result>>
    /\ UNCHANGED <<cornerVars, gridVars, gsvdVars, mdfVars, fxVars>>

\* lines 80-83, one pass of the loop
TikhSvdStep ==
    /\ sweep_pc = "loop"
    /\ sweep_in.variant = "svd"
    /\ ireg < npoints
    /\ f' = [i \in 1..Len(sweep_in.s) |-> SvdFilter(sweep_in.s[i], alphas[ireg + 1])]
    /\ etas' = Append(etas, SvdEtaSq(sweep_in.s, d_proj, alphas[ireg + 1]))
    /\ rhos' = Append(rhos, SvdRhoSq(sweep_in.s, d_proj, alphas[ireg + 1]))
    /\ ireg' = ireg + 1
    /\ UNCHANGED <<sweep_in, alphas, lams, mus, gammas, Y, d_proj, dr, sweep_pc,
                   sweep_result>>
    /\ UNCHANGED <<cornerVars, gridVars, gsvdVars, mdfVars, fxVars>>

\* rhos = np.sqrt(rhos**2 + dr), in squares
AddProjectionMisfit(r, misfit) == [i \in 1..Len(r) |-> XAdd(r[i], misfit)]

\* lines 85-89
TikhSvdFinish ==
    /\ sweep_pc = "loop"
    /\ sweep_in.variant = "svd"
    /\ ireg = npoints
    /\ rhos' = IF sweep_in.m > sweep_in.n /\ ~XLeq(dr, XInt(0))
               THEN AddProjectionMisfit(rhos, dr)
               ELSE rhos
    /\ sweep_pc' = "done"
    /\ sweep_result' = "returned"
    /\ UNCHANGED <<sweep_in, alphas, lams, mus, gammas, Y, d_proj, dr, ireg, f, etas>>
    /\ UNCHANGED <<cornerVars, gridVars, gsvdVars, mdfVars, fxVars>>

\* ---- tikh_gsvd

\* np.sqrt(np.diag(M.T @ M)): the norm of each column; every column of the
\* matrices drawn has at most one non-zero entry
ColNorms(M, nc) ==
    [j \in 1..nc |-> XInt(ISqrt(SumSq(XVec(Column(M, j))).n))]

\* lines 171-174
SweepK(m, n) == IF m > n THEN 0 ELSE n - m

\* np.transpose(nla.inv(X)) of a diagonal X
InvTranspose(X) ==
    [i \in 1..Len(X) |-> [j \in 1..Len(X) |->
        IF i = j THEN XDiv(XInt(1), XInt(X[i][i])) ELSE XInt(0)]]

\* lines 187-194
FilterFactor(gam, lam, mu, alpha) ==
    IF XIsInf(gam) \/ XIsNaN(gam) THEN XInt(1)
    ELSE IF XIsZero(lam) /\ XIsZero(mu) THEN XInt(0)
    ELSE XDiv(XMul(gam, gam), XAdd(XMul(gam, gam), XMul(alpha, alpha)))

\* lines 142-150 and 171-181
TikhGsvdSetup ==
    /\ sweep_pc = "setup"
    /\ sweep_in.variant = "gsvd"
    /\ lams' = ColNorms(sweep_in.LAM, sweep_in.n)
    /\ mus' = ColNorms(sweep_in.MU, sweep_in.n)
    /\ gammas' = [j \in 1..sweep_in.n |->
                     XDiv(ColNorms(sweep_in.LAM, sweep_in.n)[j],
                          ColNorms(sweep_in.MU, sweep_in.n)[j])]
    /\ Y' = InvTranspose(sweep_in.X)
    /\ sweep_pc' = "filter"
    /\ UNCHANGED <<sweep_in, alphas, d_proj, dr, ireg, f, rhos, etas, sweep_result>>
    /\ UNCHANGED <<cornerVars, gridVars, gsvdVars, mdfVars, fxVars>>

\* lines 185-194: f for the grid point ireg
TikhGsvdFilter ==
    /\ sweep_pc = "filter"
    /\ ireg < npoints
    /\ f' = [j \in 1..sweep_in.n |->
                IF j - 1 >= SweepK(sweep_in.m, sweep_in.n)
                THEN FilterFactor(gammas[j], lams[j], mus[j], XInt(alphas[ireg + 1]))
                ELSE XInt(0)]
    /\ sweep_pc' = "solve"
    /\ UNCHANGED <<sweep_in, alphas, lams, mus, gammas, Y, d_proj, dr, ireg, rhos,
                   etas, sweep_result>>
    /\ UNCHANGED <<cornerVars, gridVars, gsvdVars, mdfVars, fxVars>>

\* np.dot(U[:, :n-k].T, d) / lams[k:n]
DProjScale(in, lm) ==
    LET k  == SweepK(in.m, in.n)
        Uk == [i \in 1..in.m |-> SubSeq(XVec(in.U[i]), 1, Min(in.n - k, in.m))]
        pr == MatTVec(Uk, Min(in.n - k, in.m), XVec(in.d))
    IN  [j \in 1..Len(pr) |-> XDiv(pr[j], lm[k + j])]

\* mod = np.dot(Y[:, k:], np.dot(F, d_proj_scale)) with F = np.diag(f)
Model(in, yy, ff, dps) ==
    LET k  == SweepK(in.m, in.n)
        F  == [i \in 1..in.n |-> [j \in 1..in.n |-> IF i = j THEN ff[i] ELSE XInt(0)]]
        Fd == MatVec(F, dps)
        Yk == [i \in 1..in.n |-> SubSeq(yy[i], k + 1, in.n)]
    IN  MatVec(Yk, Fd)

\* np.dot(F, d_proj_scale) needs as many rows in d_proj_scale as F has columns
DotAligned(in) == in.n = Min(in.n - SweepK(in.m, in.n), in.m)

\* nla.norm(np.dot(G, mod) - d)**2
GsvdRhoSq(in, md) ==
    LET Gm == MatVec(XMat(in.G), md)
    IN  SumSq([i \in 1..in.m |-> XSub(Gm[i], XInt(in.d[i]))])

\* nla.norm(np.dot(L, mod))**2
GsvdEtaSq(in, md) == SumSq(MatVec(XMat(in.L), md))

\* lines 196-201
TikhGsvdSolve ==
    /\ sweep_pc = "solve"
    /\ IF ~DotAligned(sweep_in)
       THEN /\ sweep_result' = "ValueError: shapes not aligned"
            /\ sweep_pc' = "done"
            /\ UNCHANGED <<rhos, etas, ireg>>
       ELSE LET md == Model(sweep_in, Y, f, DProjScale(sweep_in, lams))
            IN  /\ rhos' = Append(rhos, GsvdRhoSq(sweep_in, md))
                /\ etas' = Append(etas, GsvdEtaSq(sweep_in, md))
                /\ ireg' = ireg + 1
                /\ sweep_pc' = "filter"
                /\ UNCHANGED sweep_result
    /\ UNCHANGED <<sweep_in, alphas, lams, mus, gammas, Y, d_proj, dr, f>>
    /\ UNCHANGED <<cornerVars, gridVars, gsvdVars, mdfVars, fxVars>>

\* line 203
TikhGsvdReturn ==
    /\ sweep_pc = "filter"
    /\ ireg = npoints
    /\ sweep_pc' = "done"
    /\ sweep_result' = "returned"
    /\ UNCHANGED <<sweep_in, alphas, lams, mus, gammas, Y, d_proj, dr, ireg, f,
                   rhos, etas>>
    /\ UNCHANGED <<cornerVars, gridVars, gsvdVars, mdfVars, fxVars>>

----------------------------------------------------------------------------
(* tikh_svd and tikh_gsvd: the choice of the grid                           *)
(* A positive float x is held as log2(x), an integer here; None and 0.0,    *)
(* which Python's "or" and "and" treat alike, are both held as None.  The   *)
(* order of two positive floats is the order of their logarithms.           *)

MinExp == 50         \* the smallest value drawn is 2^(-MinExp)
MaxExp == 1          \* the largest value drawn is 2^MaxExp
MaxGridPoints == 3   \* npoints is at most this
MaxGridRows == 2     \* rows of G (tikh_gsvd)
MaxGridCols == 2     \* columns of G (tikh_gsvd)

\* 16 * np.finfo(np.float64).eps = 2^(-48)
RatioExp == 48

\* an optional argument: None (or 0.0), or a positive float
None == <<>>

Some(x) == <<x>>

LogValues == {-MinExp} \cup 0..MaxExp

Optional == {None} \cup {Some(x) : x \in LogValues}

\* a or b, for an optional a
Or(a, b) == IF a # None THEN a[1] ELSE b

\* x * smin_ratio
TimesRatio(x) == x - RatioExp

\* lines 55-56
SvdBounds(in) ==
    <<Or(in.alpha_max, in.s0),
      Or(in.alpha_min, Max(in.slast, TimesRatio(in.s0)))>>

\* i1, i2 = sorted((n-m, p-1))
SortedPair(a, b) == IF a <= b THEN <<a, b>> ELSE <<b, a>>

\* lines 152-165
GsvdBounds(in) ==
    IF in.alpha_min # None /\ in.alpha_max # None
    THEN <<in.alpha_max[1], in.alpha_min[1]>>
    ELSE IF in.m <= in.n
         THEN LET ii == SortedPair(in.n - in.m, in.p - 1)
                  g1 == in.gammas[ii[1] + 1]
                  g2 == in.gammas[ii[2] + 1]
              IN  <<Or(in.alpha_max, g2), Or(in.alpha_min, Max(g1, TimesRatio(g2)))>>
         ELSE LET g0 == in.gammas[1]
                  gp == in.gammas[in.p]
              IN  <<Or(in.alpha_max, gp), Or(in.alpha_min, Max(g0, TimesRatio(gp)))>>

\* the pair left as it is
Unsorted(pair) == pair

\* sorted((start, stop), reverse=True), lines 57 and 168
SortedReverse(pair) ==
    IF pair[1] >= pair[2] THEN pair ELSE <<pair[2], pair[1]>>

\* loglinspace(a, b, num) of peiplib.util: num values spaced evenly in the
\* logarithm from a to b, the first equal to a; here the logarithms
Loglinspace(a, b, num) ==
    [i \in 1..num |->
        IF num = 1 THEN XInt(a) ELSE Fin(a * (num - 1) + (i - 1) * (b - a), num - 1)]

GridSvdInputs(np) ==
    {[variant |-> "svd", alpha_min |-> lo, alpha_max |-> hi, npoints |-> np,
      s0 |-> s0, slast |-> sl, m |-> 0, n |-> 0, p |-> 0, gammas |-> <<>>] :
        lo \in Optional, hi \in Optional,
        s0 \in LogValues, sl \in LogValues}

GridGsvdInputs(np, m, n) ==
    {[variant |-> "gsvd", alpha_min |-> lo, alpha_max |-> hi, npoints |-> np,
      s0 |-> 0, slast |-> 0, m |-> m, n |-> n, p |-> p, gammas |-> g] :
        lo \in Optional, hi \in Optional,
        p \in 1..n, g \in [1..n -> LogValues]}

\* s is in descending order: s[0] >= s[-1]
GridInputs(np, m, n) ==
    {in \in GridSvdInputs(np) : in.s0 >= in.slast} \cup GridGsvdInputs(np, m, n)

Unset == [at |-> "unset"]

GridIdle ==
    /\ grid_in = [variant |-> "none"]
    /\ start = 0
    /\ stop = 0
    /\ picked = <<0, 0>>
    /\ grid = EmptySeq
    /\ grid_i = 0
    /\ grid_rhos = EmptySeq
    /\ grid_etas = EmptySeq
    /\ grid_pc = "idle"
    /\ grid_result = "none"

GridInit ==
    /\ \E np \in 0..MaxGridPoints : \E m \in 1..MaxGridRows : \E n \in 1..MaxGridCols :
          grid_in \in GridInputs(np, m, n)
    /\ start = 0
    /\ stop = 0
    /\ picked = <<0, 0>>
    /\ grid = EmptySeq
    /\ grid_i = 0
    /\ grid_rhos = EmptySeq
    /\ grid_etas = EmptySeq
    /\ grid_pc = "bounds"
    /\ grid_result = "none"

\* lines 55-56 and 152-165
GridBounds ==
    /\ grid_pc = "bounds"
    /\ LET b == IF grid_in.variant = "svd" THEN SvdBounds(grid_in)
                ELSE GsvdBounds(grid_in)
       IN  /\ start' = b[1]
           /\ stop' = b[2]
           /\ picked' = b
    /\ grid_pc' = "grid"
    /\ UNCHANGED <<grid_in, grid, grid_i, grid_rhos, grid_etas, grid_result>>
    /\ UNCHANGED <<cornerVars, sweepVars, gsvdVars, mdfVars, fxVars>>

\* lines 57-58 and 168-169, and the zero-filled rhos and etas (76-77, 177-178)
GridMake ==
    /\ grid_pc = "grid"
    /\ LET b == SortedReverse(<<start, stop>>)
       IN  /\ start' = b[1]
           /\ stop' = b[2]
           /\ grid' = Loglinspace(b[1], b[2], grid_in.npoints)
    /\ grid_rhos' = [i \in 1..grid_in.npoints |-> Unset]
    /\ grid_etas' = [i \in 1..grid_in.npoints |-> Unset]
    /\ grid_pc' = "loop"
    /\ UNCHANGED <<grid_in, picked, grid_i, grid_result>>
    /\ UNCHANGED <<cornerVars, sweepVars, gsvdVars, mdfVars, fxVars>>

\* the value computed for one alpha, named by that alpha
ComputedFor(alpha) == [at |-> alpha]

\* lines 80-83 and 182-201: one pass; tikh_gsvd's np.dot(F, d_proj_scale)
\* raises when k = n - m > 0
GridStep ==
    /\ grid_pc = "loop"
    /\ grid_i < grid_in.npoints
    /\ IF grid_in.variant = "gsvd" /\ SweepK(grid_in.m, grid_in.n) > 0
       THEN /\ grid_result' = "ValueError: shapes not aligned"
            /\ grid_pc' = "done"
            /\ UNCHANGED <<grid_i, grid_rhos, grid_etas>>
       ELSE /\ grid_rhos' = [grid_rhos EXCEPT ![grid_i + 1] = ComputedFor(grid[grid_i + 1])]
            /\ grid_etas' = [grid_etas EXCEPT ![grid_i + 1] = ComputedFor(grid[grid_i + 1])]
            /\ grid_i' = grid_i + 1
            /\ UNCHANGED <<grid_pc, grid_result>>
    /\ UNCHANGED <<grid_in, start, stop, picked, grid>>
    /\ UNCHANGED <<cornerVars, sweepVars, gsvdVars, mdfVars, fxVars>>

\* lines 89 and 203
GridReturn ==
    /\ grid_pc = "loop"
    /\ grid_i = grid_in.npoints
    /\ grid_pc' = "done"
    /\ grid_result' = "returned"
    /\ UNCHANGED <<grid_in, start, stop, picked, grid, grid_i, grid_rhos, grid_etas>>
    /\ UNCHANGED <<cornerVars, sweepVars, gsvdVars, mdfVars, fxVars>>

----------------------------------------------------------------------------
(* gsvd and _csd                                                            *)
(* Arrays are held by their shapes.  What the data decides (the cosines     *)
(* that sla.svd returns for Q1) is drawn when the code computes it, from    *)
(* the values an input with orthonormal stacked columns can give.  A basic  *)
(* slice never raises; an index array, or an integer index, raises          *)
(* IndexError when it is out of bounds.                                     *)

MaxRows == 3     \* A and B have at most this many rows
MaxP == 3        \* A and B have at most this many columns
CosDen == 4      \* a squared cosine is drawn from {0, 1/CosDen, ..., 1}

NoShape == <<0>>

\* an n-by-n array: arange(lo, hi) as a sequence
Arange(lo, hi) == [i \in 1..Max(hi - lo, 0) |-> lo + i - 1]

\* every index of idx addresses an axis of the given size
InBounds(idx, size) == \A i \in 1..Len(idx) : idx[i] >= -size /\ idx[i] < size

\* the length of np.diag(X, k) for an r-by-c X and k >= 0
DiagLen(r, c, k) == Max(0, Min(r, c - k))

\* line 268, with the test of one direction only
ColumnMismatchOneWay(p, pb) == pb > p

\* lines 130 and 268
ColumnMismatch(p, pb) == pb # p

\* sla.qr(M, mode='economic') of an r-by-c M: Q is r-by-min(r,c), R is min(r,c)-by-c
QrEconomicQ(r, c) == <<r, Min(r, c)>>

QrEconomicR(r, c) == <<Min(r, c), c>>

GsvdInputs2 ==
    {[m |-> m, p |-> p, n |-> n, pb |-> pb, full_matrices |-> fm, compute_all |-> ca] :
        m \in 1..MaxRows, p \in 1..MaxP, n \in 1..MaxRows, pb \in 1..MaxP,
        fm \in BOOLEAN, ca \in BOOLEAN}

NoReturn == [kind |-> "none"]

GsvdIdle ==
    /\ gsvd_in = [m |-> 0]
    /\ gsvd_m = 0
    /\ gsvd_n = 0
    /\ shapeA = NoShape
    /\ shapeB = NoShape
    /\ shapeQA = NoShape
    /\ shapeQB = NoShape
    /\ shapeQ = NoShape
    /\ shapeR = NoShape
    /\ qr_calls = 0
    /\ csd_calls = 0
    /\ csd_stack = EmptySeq
    /\ csd_ret = NoReturn
    /\ gsvd_pc = "idle"
    /\ gsvd_result = NoReturn

GsvdInit ==
    /\ gsvd_in \in GsvdInputs2
    /\ gsvd_m = 0
    /\ gsvd_n = 0
    /\ shapeA = <<gsvd_in.m, gsvd_in.p>>
    /\ shapeB = <<gsvd_in.n, gsvd_in.pb>>
    /\ shapeQA = NoShape
    /\ shapeQB = NoShape
    /\ shapeQ = NoShape
    /\ shapeR = NoShape
    /\ qr_calls = 0
    /\ csd_calls = 0
    /\ csd_stack = EmptySeq
    /\ csd_ret = NoReturn
    /\ gsvd_pc = "check"
    /\ gsvd_result = NoReturn

Raise(kind, where) == [kind |-> kind, where |-> where]

\* lines 266-272
GsvdCheck ==
    /\ gsvd_pc = "check"
    /\ gsvd_m' = shapeA[1]
    /\ gsvd_n' = shapeB[1]
    /\ IF ColumnMismatch(shapeA[2], shapeB[2])
       THEN /\ gsvd_result' = Raise("MatrixColumnMismatch", "gsvd")
            /\ gsvd_pc' = "done"
       ELSE /\ gsvd_pc' = "economyA"
            /\ UNCHANGED gsvd_result
    /\ UNCHANGED <<gsvd_in, shapeA, shapeB, shapeQA, shapeQB, shapeQ, shapeR,
                   qr_calls, csd_calls, csd_stack, csd_ret>>
    /\ UNCHANGED <<cornerVars, sweepVars, gridVars, mdfVars, fxVars>>

\* lines 273-278 (p is A's column count, line 266)
GsvdEconomyA ==
    /\ gsvd_pc = "economyA"
    /\ IF ~gsvd_in.full_matrices /\ gsvd_m > gsvd_in.p
       THEN /\ shapeQA' = QrEconomicQ(shapeA[1], shapeA[2])
            /\ shapeA' = QrEconomicR(shapeA[1], shapeA[2])
            /\ qr_calls' = qr_calls + 1
            /\ gsvd_m' = gsvd_in.p
       ELSE UNCHANGED <<shapeQA, shapeA, qr_calls, gsvd_m>>
    /\ gsvd_pc' = "economyB"
    /\ UNCHANGED <<gsvd_in, gsvd_n, shapeB, shapeQB, shapeQ, shapeR, csd_calls,
                   csd_stack, csd_ret, gsvd_result>>
    /\ UNCHANGED <<cornerVars, sweepVars, gridVars, mdfVars, fxVars>>

\* lines 273, 280-283
GsvdEconomyB ==
    /\ gsvd_pc = "economyB"
    /\ IF ~gsvd_in.full_matrices /\ gsvd_n > gsvd_in.p
       THEN /\ shapeQB' = QrEconomicQ(shapeB[1], shapeB[2])
            /\ shapeB' = QrEconomicR(shapeB[1], shapeB[2])
            /\ qr_calls' = qr_calls + 1
            /\ gsvd_n' = gsvd_in.p
       ELSE UNCHANGED <<shapeQB, shapeB, qr_calls, gsvd_n>>
    /\ gsvd_pc' = "stack"
    /\ UNCHANGED <<gsvd_in, gsvd_m, shapeA, shapeQA, shapeQ, shapeR, csd_calls,
                   csd_stack, csd_ret, gsvd_result>>
    /\ UNCHANGED <<cornerVars, sweepVars, gridVars, mdfVars, fxVars>>

\* a frame of _csd(Q1, Q2) for Q1 of shape s1 and Q2 of shape s2
Frame(s1, s2) ==
    [m |-> s1[1], p |-> s1[2], n |-> s2[1], pb |-> s2[2], pc |-> "enter",
     cdiag |-> EmptySeq, k |-> 0, q |-> 0]

\* the rows lo..hi-1 of an array of the given shape: M[lo:hi, :]
RowSlice(shape, lo, hi) == <<Max(Min(hi, shape[1]) - Min(lo, shape[1]), 0), shape[2]>>

\* lines 285-286: np.vstack raises unless A and B have as many columns
GsvdStack ==
    /\ gsvd_pc = "stack"
    /\ IF shapeA[2] # shapeB[2]
       THEN /\ gsvd_result' = Raise("ValueError", "gsvd")
            /\ gsvd_pc' = "done"
            /\ UNCHANGED <<shapeQ, shapeR, qr_calls, csd_stack>>
       ELSE LET rows == shapeA[1] + shapeB[1]
                Qs   == QrEconomicQ(rows, shapeA[2])
            IN  /\ shapeQ' = Qs
                /\ shapeR' = QrEconomicR(rows, shapeA[2])
                /\ qr_calls' = qr_calls + 1
                /\ csd_stack' = <<Frame(RowSlice(Qs, 0, gsvd_m),
                                         RowSlice(Qs, gsvd_m, gsvd_m + gsvd_n))>>
                /\ gsvd_pc' = "csd"
                /\ UNCHANGED gsvd_result
    /\ UNCHANGED <<gsvd_in, gsvd_m, gsvd_n, shapeA, shapeB, shapeQA, shapeQB,
                   csd_calls, csd_ret>>
    /\ UNCHANGED <<cornerVars, sweepVars, gridVars, mdfVars, fxVars>>

\* ---- _csd

Top == csd_stack[Len(csd_stack)]

SetTop(fr) == [csd_stack EXCEPT ![Len(csd_stack)] = fr]

\* a call of _csd is running and its frame is at pc
CsdAt(pc) == gsvd_pc = "csd" /\ Len(csd_stack) > 0 /\ Top.pc = pc

\* an exception leaves every frame and gsvd
CsdRaise(kind) ==
    /\ csd_stack' = EmptySeq
    /\ gsvd_result' = Raise(kind, "_csd")
    /\ gsvd_pc' = "done"

\* return ret to the caller: the _csd frame below, at line 134, or gsvd, at
\* line 286
CsdReturnTo(ret) ==
    /\ csd_ret' = ret
    /\ IF Len(csd_stack) = 1
       THEN /\ csd_stack' = EmptySeq
            /\ gsvd_pc' = IF gsvd_in.compute_all THEN "compose" ELSE "values"
       ELSE /\ csd_stack' = [SubSeq(csd_stack, 1, Len(csd_stack) - 1)
                                EXCEPT ![Len(csd_stack) - 1].pc = "unswap"]
            /\ UNCHANGED gsvd_pc

\* the diagonals sla.svd(Q1) can give, as squared cosines times CosDen after
\* the reversal of line 157 (ascending), for Q1 (m-by-p) and Q2 (n-by-p) with
\* Q1'Q1 + Q2'Q2 = I: a column with a cosine below 1 has a non-zero sine, as
\* have the p - min(m,p) columns outside Q1's range, and Q2 has rank at most n
CosDiags(m, n, p) ==
    LET q == Min(m, p)
    IN  {c \in [1..q -> 0..CosDen] :
            /\ \A i \in 1..q : \A j \in 1..q : i < j => c[i] <= c[j]
            /\ Cardinality({i \in 1..q : c[i] < CosDen}) + (p - q) <= n}

\* np.nonzero(np.diag(C) <= 1.0 / np.sqrt(2))[0], line 167
CosineAtMostHalf(c) == {i \in 0..(Len(c) - 1) : 2 * c[i + 1] <= CosDen}

\* np.any(dum) of an index array: some index is not 0
NpAny(idx) == \E i \in idx : i # 0

SetMax(S) == CHOOSE x \in S : \A y \in S : y <= x

\* lines 154, 162-171
SplitIndex(m, n, p, c) ==
    LET q   == Min(m, p)
        dum == CosineAtMostHalf(c)
    IN  IF q = 1 THEN 0
        ELSE IF m < p THEN n
        ELSE IF ~NpAny(dum) THEN 0
        ELSE SetMax(dum) + 1

\* lines 212-214: the entries of C's and of S's diagonal above the tolerance.
\* S's diagonal holds the sines of the first n columns, and is zeroed by
\* line 183 when m = 1
RankSplit(m, n, c) ==
    LET dum1 == Cardinality({i \in 1..Len(c) : c[i] > 0})
        dum2 == IF m = 1 THEN 0
                ELSE Cardinality({i \in 1..Min(n, Len(c)) : c[i] < CosDen})
    IN  Min(dum1, dum2)

\* lines 225-231: the rows of S, and columns of V, taken at lines 235, 237
FinalRowIndex(m, n, p, q) ==
    IF n > 1
    THEN Arange(q, q + p - m) \o Arange(0, q) \o Arange(q + p - m, n)
    ELSE <<1>>

\* line 233
FinalColIndex(m, p) == Arange(m, p) \o Arange(0, m)

\* the recursive call made with the operands as they are
SameOrderCall(fr) == Frame(<<fr.m, fr.p>>, <<fr.n, fr.pb>>)

\* line 134: the frame of the recursive call _csd(Q2, Q1)
SwappedCall(fr) == Frame(<<fr.n, fr.pb>>, <<fr.m, fr.p>>)

\* lines 128-134
CsdEnter ==
    /\ CsdAt("enter")
    /\ csd_calls' = csd_calls + 1
    /\ IF ColumnMismatch(Top.p, Top.pb)
       THEN /\ CsdRaise("MatrixColumnMismatch")
       ELSE /\ IF Top.m < Top.n
               THEN csd_stack' = Append(SetTop([Top EXCEPT !.pc = "wait"]),
                                        SwappedCall(Top))
               ELSE csd_stack' = SetTop([Top EXCEPT !.pc = "svd"])
            /\ UNCHANGED <<gsvd_pc, gsvd_result>>
    /\ UNCHANGED <<gsvd_in, gsvd_m, gsvd_n, shapeA, shapeB, shapeQA, shapeQB, shapeQ,
                   shapeR, qr_calls, csd_ret>>
    /\ UNCHANGED <<cornerVars, sweepVars, gridVars, mdfVars, fxVars>>

\* lines 149-160
CsdSvd ==
    /\ CsdAt("svd")
    /\ \E c \in CosDiags(Top.m, Top.n, Top.p) :
          csd_stack' = SetTop([Top EXCEPT !.pc = "split", !.cdiag = c])
    /\ UNCHANGED <<gsvd_in, gsvd_m, gsvd_n, shapeA, shapeB, shapeQA, shapeQB, shapeQ,
                   shapeR, qr_calls, csd_calls, csd_ret, gsvd_pc, gsvd_result>>
    /\ UNCHANGED <<cornerVars, sweepVars, gridVars, mdfVars, fxVars>>

\* lines 162-171
CsdSplit ==
    /\ CsdAt("split")
    /\ csd_stack' = SetTop([Top EXCEPT !.pc = "middle",
                               !.k = SplitIndex(Top.m, Top.n, Top.p, Top.cdiag)])
    /\ UNCHANGED <<gsvd_in, gsvd_m, gsvd_n, shapeA, shapeB, shapeQA, shapeQB, shapeQ,
                   shapeR, qr_calls, csd_calls, csd_ret, gsvd_pc, gsvd_result>>
    /\ UNCHANGED <<cornerVars, sweepVars, gridVars, mdfVars, fxVars>>

\* lines 173-203: V, the diagonal block of S and the middle block; slices
\* only, of blocks that are not empty
CsdMiddle ==
    /\ CsdAt("middle")
    /\ csd_stack' = SetTop([Top EXCEPT !.pc = "final"])
    /\ UNCHANGED <<gsvd_in, gsvd_m, gsvd_n, shapeA, shapeB, shapeQA, shapeQB, shapeQ,
                   shapeR, qr_calls, csd_calls, csd_ret, gsvd_pc, gsvd_result>>
    /\ UNCHANGED <<cornerVars, sweepVars, gridVars, mdfVars, fxVars>>

\* lines 205-237
CsdFinal ==
    /\ CsdAt("final")
    /\ IF Top.m < Top.p
       THEN LET q == RankSplit(Top.m, Top.n, Top.cdiag)
                i == FinalRowIndex(Top.m, Top.n, Top.p, q)
                j == FinalColIndex(Top.m, Top.p)
            IN  IF InBounds(i, Top.n) /\ InBounds(j, Top.p)
                THEN /\ csd_stack' = SetTop([Top EXCEPT !.pc = "finish", !.q = q])
                     /\ UNCHANGED <<gsvd_pc, gsvd_result>>
                ELSE CsdRaise("IndexError")
       ELSE /\ csd_stack' = SetTop([Top EXCEPT !.pc = "finish"])
            /\ UNCHANGED <<gsvd_pc, gsvd_result>>
    /\ UNCHANGED <<gsvd_in, gsvd_m, gsvd_n, shapeA, shapeB, shapeQA, shapeQB, shapeQ,
                   shapeR, qr_calls, csd_calls, csd_ret>>
    /\ UNCHANGED <<cornerVars, sweepVars, gridVars, mdfVars, fxVars>>

\* what _csd returns for Q1 m-by-p and Q2 n-by-p: (U, V, Z, C, S)
CsdShapes(m, n, p) ==
    [kind |-> "ok", U |-> <<m, m>>, V |-> <<n, n>>, Z |-> <<p, p>>,
     C |-> <<m, p>>, S |-> <<n, p>>]

\* lines 239-249
CsdFinish ==
    /\ CsdAt("finish")
    /\ CsdReturnTo(CsdShapes(Top.m, Top.n, Top.p))
    /\ UNCHANGED <<gsvd_in, gsvd_m, gsvd_n, shapeA, shapeB, shapeQA, shapeQB, shapeQ,
                   shapeR, qr_calls, csd_calls, gsvd_result>>
    /\ UNCHANGED <<cornerVars, sweepVars, gridVars, mdfVars, fxVars>>

\* lines 134-147: V, U, Z, S, C = _csd(Q2, Q1), then the reversals
CsdUnswap ==
    /\ CsdAt("unswap")
    /\ LET U == csd_ret.V
           V == csd_ret.U
           C == csd_ret.S
           S == csd_ret.C
           j == Arange(0, Top.p)
           i == Arange(0, Min(Top.m, Top.p))
           l == Arange(0, Min(Top.n, Top.p))
       IN  IF /\ InBounds(j, C[2]) /\ InBounds(j, S[2]) /\ InBounds(j, csd_ret.Z[2])
              /\ InBounds(i, C[1]) /\ InBounds(i, U[2])
              /\ InBounds(l, S[1]) /\ InBounds(l, V[2])
           THEN /\ CsdReturnTo([kind |-> "ok", U |-> U, V |-> V, Z |-> csd_ret.Z,
                                C |-> C, S |-> S])
                /\ UNCHANGED gsvd_result
           ELSE /\ CsdRaise("IndexError")
                /\ UNCHANGED csd_ret
    /\ UNCHANGED <<gsvd_in, gsvd_m, gsvd_n, shapeA, shapeB, shapeQA, shapeQB, shapeQ,
                   shapeR, qr_calls, csd_calls>>
    /\ UNCHANGED <<cornerVars, sweepVars, gridVars, mdfVars, fxVars>>

\* ---- gsvd, after _csd

\* np.dot(a, b) of two matrices: the shape, or <<>> when they do not align
DotShape(a, b) == IF a[2] = b[1] THEN <<a[1], b[2]>> ELSE <<>>

Transposed(a) == <<a[2], a[1]>>

\* lines 288-297
GsvdCompose ==
    /\ gsvd_pc = "compose"
    /\ LET X == DotShape(Transposed(shapeR), csd_ret.Z)
           U == IF shapeQA # NoShape THEN DotShape(shapeQA, csd_ret.U) ELSE csd_ret.U
           V == IF shapeQB # NoShape THEN DotShape(shapeQB, csd_ret.V) ELSE csd_ret.V
       IN  IF X = <<>> \/ U = <<>> \/ V = <<>>
           THEN gsvd_result' = Raise("ValueError", "gsvd")
           ELSE gsvd_result' = [kind |-> "full", U |-> U, V |-> V, X |-> X,
                                C |-> csd_ret.C, S |-> csd_ret.S]
    /\ gsvd_pc' = "done"
    /\ UNCHANGED <<gsvd_in, gsvd_m, gsvd_n, shapeA, shapeB, shapeQA, shapeQB, shapeQ,
                   shapeR, qr_calls, csd_calls, csd_stack, csd_ret>>
    /\ UNCHANGED <<cornerVars, sweepVars, gridVars, mdfVars, fxVars>>

\* lines 299-311; np.zeros((r, 1)) raises ValueError for r < 0, and the
\* division of a column of a rows by one of b rows raises unless a = b or
\* one of them is 1
GsvdValues ==
    /\ gsvd_pc = "values"
    /\ LET q    == Min(gsvd_m + gsvd_n, gsvd_in.p)
           dum2 == DiagLen(csd_ret.C[1], csd_ret.C[2], Max(0, q - gsvd_m))
           dum3 == DiagLen(csd_ret.S[1], csd_ret.S[2], 0)
           dumA == (q - gsvd_m) + dum2
           dumB == dum3 + (q - gsvd_n)
       IN  IF q - gsvd_m < 0 \/ q - gsvd_n < 0
           THEN gsvd_result' = Raise("ValueError", "gsvd")
           ELSE IF dumA # dumB /\ dumA # 1 /\ dumB # 1
           THEN gsvd_result' = Raise("ValueError", "gsvd")
           ELSE gsvd_result' = [kind |-> "values", numerator |-> dumA,
                                denominator |-> dumB, sigma |-> Max(dumA, dumB)]
    /\ gsvd_pc' = "done"
    /\ UNCHANGED <<gsvd_in, gsvd_m, gsvd_n, shapeA, shapeB, shapeQA, shapeQB, shapeQ,
                   shapeR, qr_calls, csd_calls, csd_stack, csd_ret>>
    /\ UNCHANGED <<cornerVars, sweepVars, gridVars, mdfVars, fxVars>>

----------------------------------------------------------------------------
(* corner_mdf_svd and corner_mdf_gsvd                                       *)
(* The two routines differ in the sweep they call and in the default        *)
(* alpha_init.  What f returns depends on the data; each call draws it from *)
(* the values sqrt(dum1 * (dum2/dum3)) can take: NaN, 0, a positive value  *)
(* or inf.  The data are such that eta_pre is not 0.0, so that the division *)
(* rho_pre/eta_pre of two Python floats is defined.                         *)

MaxIter == 3          \* maxiter is drawn from -1..MaxIter
MaxMdfAlpha == 2      \* positive alphas are drawn from 1..MaxMdfAlpha

Positive == {XInt(a) : a \in 1..MaxMdfAlpha}

\* the values of alpha_next
AlphaOut == {XNaN, XInt(0), XInf(1)} \cup Positive

\* the tolerances drawn
Tolerances == {XInt(-1), XInt(0), Fin(1, 2), XInt(1)}

MdfInputs ==
    {[variant |-> v, alpha_init |-> a, tol |-> tl, maxiter |-> mi, default |-> df] :
        v \in {"svd", "gsvd"}, a \in {XInt(0)} \cup Positive, tl \in Tolerances,
        mi \in -1..MaxIter, df \in Positive}

MdfIdle ==
    /\ mdf_in = [variant |-> "none"]
    /\ alpha_init = XInt(0)
    /\ alpha_pre = XInt(0)
    /\ alpha_next = XInt(0)
    /\ change = XInt(0)
    /\ counter = 0
    /\ f_evals = 0
    /\ sweep_calls = EmptySeq
    /\ mdf_pc = "idle"
    /\ mdf_result = NoReturn

MdfInit ==
    /\ mdf_in \in MdfInputs
    /\ alpha_init = mdf_in.alpha_init
    /\ alpha_pre = XInt(0)
    /\ alpha_next = XInt(0)
    /\ change = XInt(0)
    /\ counter = 0
    /\ f_evals = 0
    /\ sweep_calls = EmptySeq
    /\ mdf_pc = "origin"
    /\ mdf_result = NoReturn

XAbs(a) == IF a.k = "nan" THEN a ELSE [a EXCEPT !.n = Abs(a.n)]

\* a > b; false when either is NaN
XGt(a, b) == XLeq(b, a) /\ ~XLeq(a, b)

\* abs((alpha_next / alpha_pre) - 1.0)
RelativeChange(nxt, pre) == XAbs(XSub(XDiv(nxt, pre), XInt(1)))

\* the loop condition without the test of the iteration budget
LoopGuardNoBudget(chg, tol, cnt, maxiter) == XGt(chg, tol)

\* lines 338 and 425: (change > tol) and (counter < maxiter)
LoopGuard(chg, tol, cnt, maxiter) == XGt(chg, tol) /\ cnt < maxiter

\* the alpha of a sweep of one point called with alpha_min = alpha_max = a:
\* "alpha_max or s[0]" (line 55) and "if alpha_min and alpha_max" (line 152)
\* take the default bound when a is 0.0
SinglePointAlpha(a, default) == IF XIsZero(a) THEN default ELSE a

\* lines 315-317 and 401-403: the sweep of two points that gives the origin
MdfOrigin ==
    /\ mdf_pc = "origin"
    /\ sweep_calls' = Append(sweep_calls, <<2, XInt(0), XInt(0)>>)
    /\ mdf_pc' = "init"
    /\ UNCHANGED <<mdf_in, alpha_init, alpha_pre, alpha_next, change, counter,
                   f_evals, mdf_result>>
    /\ UNCHANGED <<cornerVars, sweepVars, gridVars, gsvdVars, fxVars>>

\* lines 319-321 and 405-407: a point inside the grid of the two-point sweep
MdfAlphaInit ==
    /\ mdf_pc = "init"
    /\ IF XIsZero(alpha_init)
       THEN \E a \in Positive : alpha_init' = a
       ELSE UNCHANGED alpha_init
    /\ mdf_pc' = "first"
    /\ UNCHANGED <<mdf_in, alpha_pre, alpha_next, change, counter, f_evals,
                   sweep_calls, mdf_result>>
    /\ UNCHANGED <<cornerVars, sweepVars, gridVars, gsvdVars, fxVars>>

\* lines 334-337 and 421-424
MdfFirst ==
    /\ mdf_pc = "first"
    /\ \E a \in AlphaOut :
          /\ alpha_next' = a
          /\ change' = RelativeChange(a, alpha_init)
    /\ f_evals' = f_evals + 1
    /\ counter' = 1
    /\ mdf_pc' = "loop"
    /\ UNCHANGED <<mdf_in, alpha_init, alpha_pre, sweep_calls, mdf_result>>
    /\ UNCHANGED <<cornerVars, sweepVars, gridVars, gsvdVars, fxVars>>

\* lines 338-342 and 425-429: one pass of the loop
MdfLoop ==
    /\ mdf_pc = "loop"
    /\ LoopGuard(change, mdf_in.tol, counter, mdf_in.maxiter)
    /\ alpha_pre' = alpha_next
    /\ \E a \in AlphaOut :
          /\ alpha_next' = a
          /\ change' = RelativeChange(a, alpha_next)
    /\ f_evals' = f_evals + 1
    /\ counter' = counter + 1
    /\ UNCHANGED <<mdf_in, alpha_init, sweep_calls, mdf_pc, mdf_result>>
    /\ UNCHANGED <<cornerVars, sweepVars, gridVars, gsvdVars, fxVars>>

\* lines 344-348 and 431-434
MdfFinal ==
    /\ mdf_pc = "loop"
    /\ ~LoopGuard(change, mdf_in.tol, counter, mdf_in.maxiter)
    /\ sweep_calls' = Append(sweep_calls, <<1, alpha_next, alpha_next>>)
    /\ mdf_result' = [kind |-> "triple",
                      alpha |-> SinglePointAlpha(alpha_next, mdf_in.default)]
    /\ mdf_pc' = "done"
    /\ UNCHANGED <<mdf_in, alpha_init, alpha_pre, alpha_next, change, counter, f_evals>>
    /\ UNCHANGED <<cornerVars, sweepVars, gridVars, gsvdVars, fxVars>>

----------------------------------------------------------------------------
(* The arrays of a call                                                     *)
(* A call of a public operation is the sequence of its statements that bind *)
(* a name to an array or write an array in place.  A name is bound to a     *)
(* buffer: one of the caller's, for a parameter, or one allocated inside    *)
(* the call.  A slice, a reshape, a transpose and np.real give a view, which*)
(* shares the buffer of its base; sla.qr, sla.svd, np.dot, np.vstack,       *)
(* np.zeros, arithmetic and an index array give a new buffer; X[...] = v    *)
(* writes the buffer of X.  The branches of the code are drawn with the     *)
(* input.                                                                   *)

MaxCalls == 2       \* the calls made on the same inputs

\* statements; a name is <<function, variable>>
Fresh(fn, x, line) == [op |-> "fresh", x |-> <<fn, x>>, y |-> <<fn, x>>, line |-> line]

View(fn, x, gn, y, line) == [op |-> "view", x |-> <<fn, x>>, y |-> <<gn, y>>, line |-> line]

Write(fn, x, line) == [op |-> "write", x |-> <<fn, x>>, y |-> <<fn, x>>, line |-> line]

When(cond, stmts) == IF cond THEN stmts ELSE <<>>

\* sla.qr(a, overwrite_a=True): the factor R is built in the buffer of a
QrOverwriting(fn, x, src, line) == View(fn, x, fn, src, line)

\* sla.qr(a): overwrite_a is False, the factors are new arrays
Qr(fn, x, src, line) == Fresh(fn, x, line)

\* _diagp(Y, X, k) called as y, x = _diagp(y, x, k) from fn at the given line
DiagpCall(fn, y, x, line) ==
    << View("_diagp", "Y", fn, y, 102), View("_diagp", "X", fn, x, 102),
       View("_diagp", "D", "_diagp", "X", 108),
       Fresh("_diagp", "j", 109), Fresh("_diagp", "D", 110),
       Write("_diagp", "Y", 111), Write("_diagp", "X", 112),
       View(fn, y, "_diagp", "Y", line), View(fn, x, "_diagp", "X", line) >>

\* _csd from line 150 on, in the frame fn
CsdBody(fn, b) ==
    << Fresh(fn, "U", 150), Fresh(fn, "c", 150), Fresh(fn, "Zh", 150),
       Fresh(fn, "C", 151), View(fn, "Z", fn, "Zh", 152),
       Write(fn, "C", 157), Write(fn, "U", 158), Write(fn, "Z", 159),
       Fresh(fn, "S", 160), Fresh(fn, "V", 174), Fresh(fn, "S", 178),
       Write(fn, "S", 181) >>
    \o When(b.m1, << Write(fn, "S", 183) >>)
    \o When(b.middle,
            << Fresh(fn, "i", 187), Fresh(fn, "j", 188),
               Fresh(fn, "UT", 189), Fresh(fn, "sT", 189), Fresh(fn, "VhT", 189),
               Fresh(fn, "ST", 190), View(fn, "VT", fn, "VhT", 191),
               Write(fn, "S", 193), Write(fn, "S", 195), Write(fn, "C", 196),
               Write(fn, "V", 197), Write(fn, "Z", 198),
               Fresh(fn, "Q", 201), Fresh(fn, "R", 201), Write(fn, "C", 202),
               Write(fn, "U", 203) >>)
    \o When(b.wide,
            << Fresh(fn, "Q", 220), Fresh(fn, "R", 220),
               Write(fn, "S", 221), Write(fn, "S", 222), Write(fn, "V", 223),
               Fresh(fn, "C", 234), Fresh(fn, "S", 235), Fresh(fn, "Z", 236),
               Fresh(fn, "V", 237) >>)
    \o When(b.narrow, << Write(fn, "S", 241) >>)
    \o DiagpCall(fn, "U", "C", 244)
    \o << View(fn, "C", fn, "C", 245) >>
    \o DiagpCall(fn, "V", "S", 246)
    \o << View(fn, "S", fn, "S", 247) >>

\* _csd(Q1, Q2), lines 128-249
CsdProgram(b) ==
    IF b.swap
    THEN << View("_csd'", "Q1", "_csd", "Q2", 134), View("_csd'", "Q2", "_csd", "Q1", 134) >>
         \o CsdBody("_csd'", b)
         \o << View("_csd", "V", "_csd'", "U", 134), View("_csd", "U", "_csd'", "V", 134),
               View("_csd", "Z", "_csd'", "Z", 134), View("_csd", "S", "_csd'", "C", 134),
               View("_csd", "C", "_csd'", "S", 134),
               Fresh("_csd", "C", 136), Fresh("_csd", "S", 137), Fresh("_csd", "Z", 138),
               Write("_csd", "C", 141), Write("_csd", "U", 142),
               Write("_csd", "S", 145), Write("_csd", "V", 146) >>
    ELSE CsdBody("_csd", b)

\* gsvd(A, B, full_matrices, compute_all), lines 266-311
GsvdProgram(b) ==
    << Fresh("gsvd", "QA", 271), Fresh("gsvd", "QB", 272) >>
    \o When(b.econA,
            << Fresh("gsvd", "QA", 276), Qr("gsvd", "A", "A", 276) >>
            \o DiagpCall("gsvd", "QA", "A", 277))
    \o When(b.econB,
            << Fresh("gsvd", "QB", 281), Qr("gsvd", "B", "B", 281) >>
            \o DiagpCall("gsvd", "QB", "B", 282))
    \o << Fresh("gsvd", "Q", 285), Fresh("gsvd", "R", 285),
          View("_csd", "Q1", "gsvd", "Q", 286), View("_csd", "Q2", "gsvd", "Q", 286) >>
    \o CsdProgram(b)
    \o << View("gsvd", "U", "_csd", "U", 286), View("gsvd", "V", "_csd", "V", 286),
          View("gsvd", "Z", "_csd", "Z", 286), View("gsvd", "C", "_csd", "C", 286),
          View("gsvd", "S", "_csd", "S", 286) >>
    \o (IF b.compute_all
        THEN << Fresh("gsvd", "X", 290) >>
             \o When(b.econA, << Fresh("gsvd", "U", 292) >>)
             \o When(b.econB, << Fresh("gsvd", "V", 295) >>)
        ELSE << Fresh("gsvd", "dum1", 302), Fresh("gsvd", "dum2", 303),
                Fresh("gsvd", "dumA", 304), Fresh("gsvd", "dum3", 306),
                Fresh("gsvd", "dum4", 307), Fresh("gsvd", "dumB", 308),
                Fresh("gsvd", "sigma", 310) >>)

\* tikh_svd(U, s, d, npoints, alpha_min, alpha_max), lines 54-89, with one
\* pass of the loop
TikhSvdProgram(b) ==
    << Fresh("tikh_svd", "alphas", 58) >>
    \o When(b.d2, << View("tikh_svd", "d", "tikh_svd", "d", 64) >>)
    \o << Fresh("tikh_svd", "d_proj", 67), View("tikh_svd", "d_proj", "tikh_svd", "d_proj", 70),
          Fresh("tikh_svd", "d_proj_scale", 73), Fresh("tikh_svd", "etas", 76),
          Fresh("tikh_svd", "rhos", 77), Fresh("tikh_svd", "s2", 79),
          Fresh("tikh_svd", "f", 81), Write("tikh_svd", "etas", 82),
          Write("tikh_svd", "rhos", 83) >>
    \o When(b.misfit, << Fresh("tikh_svd", "rhos", 87) >>)

\* tikh_gsvd(U, X, LAM, MU, d, G, L, npoints, alpha_min, alpha_max), lines
\* 142-203, with one pass of each loop
TikhGsvdProgram(b) ==
    When(b.d2, << View("tikh_gsvd", "d", "tikh_gsvd", "d", 146) >>)
    \o << Fresh("tikh_gsvd", "lams", 148), Fresh("tikh_gsvd", "mus", 149),
          Fresh("tikh_gsvd", "gammas", 150), Fresh("tikh_gsvd", "alphas", 169),
          Fresh("tikh_gsvd", "etas", 177), Fresh("tikh_gsvd", "rhos", 178),
          Fresh("tikh_gsvd", "Y", 181), Fresh("tikh_gsvd", "f", 185),
          Write("tikh_gsvd", "f", 190), Fresh("tikh_gsvd", "d_proj_scale", 197),
          Fresh("tikh_gsvd", "F", 198), Fresh("tikh_gsvd", "mod", 199),
          Write("tikh_gsvd", "rhos", 200), Write("tikh_gsvd", "etas", 201) >>

\* corner_maxcurv(rhos, etas, alphas), lines 238-272
CornerProgram(b) ==
    << Fresh("corner_maxcurv", "xs", 238), Fresh("corner_maxcurv", "ys", 239),
       View("corner_maxcurv", "x1", "corner_maxcurv", "xs", 241),
       View("corner_maxcurv", "x2", "corner_maxcurv", "xs", 242),
       View("corner_maxcurv", "x3", "corner_maxcurv", "xs", 243),
       View("corner_maxcurv", "y1", "corner_maxcurv", "ys", 244),
       View("corner_maxcurv", "y2", "corner_maxcurv", "ys", 245),
       View("corner_maxcurv", "y3", "corner_maxcurv", "ys", 246),
       Fresh("corner_maxcurv", "a", 249), Fresh("corner_maxcurv", "b", 250),
       Fresh("corner_maxcurv", "c", 251), Fresh("corner_maxcurv", "s", 254),
       Fresh("corner_maxcurv", "areas", 257), Fresh("corner_maxcurv", "radii", 260),
       Fresh("corner_maxcurv", "kappa", 265) >>

\* the names of the parameters that are arrays
Params(op) ==
    CASE op = "gsvd" -> <<"A", "B">>
      [] op \in {"tikh_svd", "corner_mdf_svd"} -> <<"U", "s", "d">>
      [] op \in {"tikh_gsvd", "corner_mdf_gsvd"} -> <<"U", "X", "LAM", "MU", "d", "G", "L">>
      [] op = "corner_maxcurv" -> <<"rhos", "etas", "alphas">>

\* a call of a sweep from fn at the given line: the parameters are passed by
\* reference, and the three arrays returned are bound in fn
SweepCall(fn, sweep, body, line) ==
    [i \in 1..Len(Params(sweep)) |-> View(sweep, Params(sweep)[i], fn, Params(sweep)[i], line)]
    \o body
    \o << View(fn, "rhos", sweep, "rhos", line), View(fn, "etas", sweep, "etas", line),
          View(fn, "alphas", sweep, "alphas", line) >>

\* corner_mdf_svd (lines 315-348) and corner_mdf_gsvd (lines 401-434): the
\* sweep of two points, f once, and once more in the loop, and the last sweep
MdfProgram(fn, sweep, body, at, b) ==
    SweepCall(fn, sweep, body, at.origin)
    \o << Fresh(fn, "q", at.init) >>
    \o SweepCall(fn, sweep, body, at.first)
    \o When(b.loop, SweepCall(fn, sweep, body, at.loop))
    \o SweepCall(fn, sweep, body, at.final)

Program(b) ==
    CASE b.op = "gsvd" -> GsvdProgram(b)
      [] b.op = "tikh_svd" -> TikhSvdProgram(b)
      [] b.op = "tikh_gsvd" -> TikhGsvdProgram(b)
      [] b.op = "corner_maxcurv" -> CornerProgram(b)
      [] b.op = "corner_mdf_svd" ->
             MdfProgram("corner_mdf_svd", "tikh_svd", TikhSvdProgram(b),
                        [origin |-> 315, init |-> 320, first |-> 334, loop |-> 340,
                         final |-> 346], b)
      [] b.op = "corner_mdf_gsvd" ->
             MdfProgram("corner_mdf_gsvd", "tikh_gsvd", TikhGsvdProgram(b),
                        [origin |-> 401, init |-> 406, first |-> 421, loop |-> 427,
                         final |-> 431], b)

\* buffers
Caller(i) == [own |-> "caller", id |-> i]

Local(i) == [own |-> "local", id |-> i]

Unbound == [own |-> "none", id |-> 0]

NoBranches ==
    [op |-> "none", econA |-> FALSE, econB |-> FALSE, compute_all |-> FALSE,
     swap |-> FALSE, m1 |-> FALSE, middle |-> FALSE, wide |-> FALSE, narrow |-> FALSE,
     d2 |-> FALSE, misfit |-> FALSE, loop |-> FALSE]

\* the calls: an operation and the branches its input takes
GsvdCalls ==
    {[NoBranches EXCEPT !.op = "gsvd", !.econA = ea, !.econB = eb, !.compute_all = ca,
                        !.swap = sw, !.m1 = m1, !.middle = mi, !.wide = wi,
                        !.narrow = na] :
        ea \in BOOLEAN, eb \in BOOLEAN, ca \in BOOLEAN, sw \in BOOLEAN, m1 \in BOOLEAN,
        mi \in BOOLEAN, wi \in BOOLEAN, na \in BOOLEAN}

LcurveCalls ==
    {[NoBranches EXCEPT !.op = "corner_maxcurv"]}
    \cup {[NoBranches EXCEPT !.op = op, !.d2 = d2, !.misfit = mf, !.loop = lp] :
            op \in {"tikh_svd", "corner_mdf_svd"}, d2 \in BOOLEAN, mf \in BOOLEAN,
            lp \in BOOLEAN}
    \cup {[NoBranches EXCEPT !.op = op, !.d2 = d2, !.loop = lp] :
            op \in {"tikh_gsvd", "corner_mdf_gsvd"}, d2 \in BOOLEAN, lp \in BOOLEAN}

\* the names of a program, and of the parameters of the operation
NamesOf(b) ==
    LET prog == Program(b)
    IN  {prog[i].x : i \in 1..Len(prog)} \cup {prog[i].y : i \in 1..Len(prog)}
        \cup {<<b.op, Params(b.op)[i]>> : i \in 1..Len(Params(b.op))}

\* at the call the parameters are bound to the caller's arrays
EnvAtCall(b) ==
    [nm \in NamesOf(b) |->
        IF \E i \in 1..Len(Params(b.op)) : nm = <<b.op, Params(b.op)[i]>>
        THEN Caller(CHOOSE i \in 1..Len(Params(b.op)) : nm = <<b.op, Params(b.op)[i]>>)
        ELSE Unbound]

FxIdle ==
    /\ fx_in = NoBranches
    /\ fx_prog = EmptySeq
    /\ fx_env = EmptySeq
    /\ fx_next = 0
    /\ fx_written = {}
    /\ fx_input = EmptySeq
    /\ fx_pc = 0
    /\ fx_call = 0

FxInit ==
    /\ fx_in \in GsvdCalls \cup LcurveCalls
    /\ fx_prog = Program(fx_in)
    /\ fx_env = EnvAtCall(fx_in)
    /\ fx_next = 0
    /\ fx_written = {}
    /\ fx_input = [i \in 1..Len(Params(fx_in.op)) |-> 0]
    /\ fx_pc = 1
    /\ fx_call = 1

\* the statement the call is at
FxAt(op) ==
    /\ fx_pc >= 1
    /\ fx_pc <= Len(fx_prog)
    /\ fx_prog[fx_pc].op = op

Stmt == fx_prog[fx_pc]

\* x = an array allocated by this statement
FxFresh ==
    /\ FxAt("fresh")
    /\ fx_env' = [fx_env EXCEPT ![Stmt.x] = Local(fx_next + 1)]
    /\ fx_next' = fx_next + 1
    /\ fx_pc' = fx_pc + 1
    /\ UNCHANGED <<fx_in, fx_prog, fx_written, fx_input, fx_call>>
    /\ UNCHANGED <<cornerVars, sweepVars, gridVars, gsvdVars, mdfVars>>

\* x = a view of y, or y itself
FxView ==
    /\ FxAt("view")
    /\ fx_env' = [fx_env EXCEPT ![Stmt.x] = fx_env[Stmt.y]]
    /\ fx_pc' = fx_pc + 1
    /\ UNCHANGED <<fx_in, fx_prog, fx_next, fx_written, fx_input, fx_call>>
    /\ UNCHANGED <<cornerVars, sweepVars, gridVars, gsvdVars, mdfVars>>

\* x[...] = v: the buffer of x is written; a caller's array changes
FxWrite ==
    /\ FxAt("write")
    /\ LET buf == fx_env[Stmt.x]
       IN  /\ fx_written' = fx_written \cup {buf}
           /\ IF buf.own = "caller"
              THEN fx_input' = [fx_input EXCEPT ![buf.id] = 1]
              ELSE UNCHANGED fx_input
    /\ fx_pc' = fx_pc + 1
    /\ UNCHANGED <<fx_in, fx_prog, fx_env, fx_next, fx_call>>
    /\ UNCHANGED <<cornerVars, sweepVars, gridVars, gsvdVars, mdfVars>>

\* the call returns, and the operation is called again on the same inputs
FxCallAgain ==
    /\ fx_pc = Len(fx_prog) + 1
    /\ fx_call < MaxCalls
    /\ fx_env' = EnvAtCall(fx_in)
    /\ fx_next' = 0
    /\ fx_written' = {}
    /\ fx_pc' = 1
    /\ fx_call' = fx_call + 1
    /\ UNCHANGED <<fx_in, fx_prog, fx_input>>
    /\ UNCHANGED <<cornerVars, sweepVars, gridVars, gsvdVars, mdfVars>>

----------------------------------------------------------------------------
(* Specifications *)

InitCorner == CornerInit /\ SweepIdle /\ GridIdle /\ GsvdIdle /\ MdfIdle /\ FxIdle

NextCorner ==
    \/ CornerCurvature
    \/ CornerArgmax
    \/ CornerReturn

SpecCorner == InitCorner /\ [][NextCorner]_vars

InitSweep == SweepInit /\ CornerIdle /\ GridIdle /\ GsvdIdle /\ MdfIdle /\ FxIdle

NextSweep ==
    \/ TikhSvdProject
    \/ TikhSvdStep
    \/ TikhSvdFinish
    \/ TikhGsvdSetup
    \/ TikhGsvdFilter
    \/ TikhGsvdSolve
    \/ TikhGsvdReturn

SpecSweep == InitSweep /\ [][NextSweep]_vars

InitGrid == GridInit /\ CornerIdle /\ SweepIdle /\ GsvdIdle /\ MdfIdle /\ FxIdle

NextGrid ==
    \/ GridBounds
    \/ GridMake
    \/ GridStep
    \/ GridReturn

SpecGrid == InitGrid /\ [][NextGrid]_vars

InitGsvd == GsvdInit /\ CornerIdle /\ SweepIdle /\ GridIdle /\ MdfIdle /\ FxIdle

NextGsvd ==
    \/ GsvdCheck
    \/ GsvdEconomyA
    \/ GsvdEconomyB
    \/ GsvdStack
    \/ CsdEnter
    \/ CsdSvd
    \/ CsdSplit
    \/ CsdMiddle
    \/ CsdFinal
    \/ CsdFinish
    \/ CsdUnswap
    \/ GsvdCompose
    \/ GsvdValues

SpecGsvd == InitGsvd /\ [][NextGsvd]_vars

InitMdf == MdfInit /\ CornerIdle /\ SweepIdle /\ GridIdle /\ GsvdIdle /\ FxIdle

NextMdf ==
    \/ MdfOrigin
    \/ MdfAlphaInit
    \/ MdfFirst
    \/ MdfLoop
    \/ MdfFinal

\* the routine is sequential code: it takes its next step whenever it has one
SpecMdf == InitMdf /\ [][NextMdf]_vars /\ WF_vars(NextMdf)

InitFx == FxInit /\ CornerIdle /\ SweepIdle /\ GridIdle /\ GsvdIdle /\ MdfIdle

NextFx ==
    \/ FxFresh
    \/ FxView
    \/ FxWrite
    \/ FxCallAgain

SpecFx == InitFx /\ [][NextFx]_vars

----------------------------------------------------------------------------
(* Claims about corner_maxcurv *)

\* the interior samples (0-based indices) and the largest |curvature| there
Interior == Range(1, Len(samples) - 1)

IsMaxCurvature(i) ==
    /\ i \in Interior
    /\ ~kappa[i + 1].nan
    /\ \A j \in Interior : ~kappa[j + 1].nan => ~RatLess(kappa[i + 1], kappa[j + 1])

\* C1: with N >= 3 samples corner_maxcurv returns the triple of the interior
\* sample (index in 1..N-2) whose |curvature| is largest among the interior
\* samples; with exactly 3 samples that is index 1.
\* (Stated for the inputs on which some interior curvature is defined, so
\* that the largest one exists.)
C1_ReturnsMaxCurvatureSample ==
    (/\ corner_pc = "done"
     /\ Len(samples) >= 3
     /\ \E i \in Interior : ~kappa[i + 1].nan) =>
        /\ corner_result.kind = "triple"
        /\ IsMaxCurvature(corner_result.index)

\* C7: with fewer than 3 samples the call ends in the error of an empty
\* curvature slice and returns no triple; with 3 or more samples that error
\* is not raised.
C7_FewSamplesRaise ==
    corner_pc = "done" =>
        /\ Len(samples) < 3 => corner_result.kind = "ValueError: empty sequence"
        /\ Len(samples) >= 3 => corner_result.kind # "ValueError: empty sequence"

C7_Witness ==
    /\ corner_pc = "done"
    /\ Len(samples) = 2
    /\ corner_result.kind = "ValueError: empty sequence"

----------------------------------------------------------------------------
(* Claims about the sweeps *)

ActiveColumns == Range(SweepK(sweep_in.m, sweep_in.n), sweep_in.n)

\* gamma**2 / (gamma**2 + alpha**2) for gamma = lam / mu, mu # 0
TikhonovFactor(lam, mu, alpha) ==
    XDiv(XMul(lam, lam), XAdd(XMul(lam, lam), XMul(XMul(alpha, alpha), XMul(mu, mu))))

\* C2: in tikh_gsvd, for every active column and every alpha, the filter
\* factor is 1 when gamma is infinite (mu = 0, lambda > 0), 0 when lambda = 0
\* and mu = 0, gamma^2/(gamma^2 + alpha^2) otherwise, and never NaN.
C2_FilterFactors ==
    (sweep_in.variant = "gsvd" /\ sweep_pc = "solve") =>
        \A j \in ActiveColumns :
            LET lam == lams[j + 1]
                mu  == mus[j + 1]
            IN  /\ ~XIsNaN(f[j + 1])
                /\ (XIsZero(mu) /\ ~XIsZero(lam)) => f[j + 1] = XInt(1)
                /\ (XIsZero(mu) /\ XIsZero(lam)) => f[j + 1] = XInt(0)
                /\ ~XIsZero(mu) =>
                       f[j + 1] = TikhonovFactor(lam, mu, XInt(alphas[ireg + 1]))

\* C9: the sequences a sweep returns are monotone along the grid: for
\* i < j (alphas[i] >= alphas[j]), rhos[i] >= rhos[j] and etas[i] <= etas[j],
\* for tikh_svd and for tikh_gsvd.
C9_Monotone ==
    (sweep_pc = "done" /\ sweep_result = "returned") =>
        \A i \in 1..npoints : \A j \in 1..npoints :
            i < j => XGeq(rhos[i], rhos[j]) /\ XLeq(etas[i], etas[j])

\* the same for tikh_svd alone
MonotoneSvd == sweep_in.variant = "svd" => C9_Monotone

\* the same for tikh_gsvd on inputs with m >= n and every lambda positive
MonotoneGsvdRegular ==
    (/\ sweep_in.variant = "gsvd"
     /\ \A j \in 1..Len(lams) : ~XIsZero(lams[j])) => C9_Monotone

----------------------------------------------------------------------------
(* Claims about the grid *)

GridReturned == grid_pc = "done" /\ grid_result = "returned"

\* C8: for both sweeps, whatever bounds are supplied and in whatever order,
\* the grid runs from start >= stop: the returned alphas are non-increasing
\* and alphas[0] is the larger of the two bounds; rhos, etas and alphas have
\* npoints entries each, and rhos[i], etas[i] are the values computed for
\* alphas[i].
C8_GridDescendingAligned ==
    GridReturned =>
        /\ XLeq(XInt(stop), XInt(start))
        /\ \A i \in 1..Len(grid) : \A j \in 1..Len(grid) :
               i < j => XGeq(grid[i], grid[j])
        /\ Len(grid) >= 1 => grid[1] = XInt(Max(picked[1], picked[2]))
        /\ (Len(grid) >= 1 /\ grid_in.alpha_min # None /\ grid_in.alpha_max # None) =>
               grid[1] = XInt(Max(grid_in.alpha_min[1], grid_in.alpha_max[1]))
        /\ Len(grid) = grid_in.npoints
        /\ Len(grid_rhos) = grid_in.npoints
        /\ Len(grid_etas) = grid_in.npoints
        /\ \A i \in 1..Len(grid) :
               grid_rhos[i] = ComputedFor(grid[i]) /\ grid_etas[i] = ComputedFor(grid[i])

\* both sweeps return a grid of several points from bounds supplied in
\* ascending order (alpha_min > alpha_max)
C8_Witness ==
    /\ GridReturned
    /\ grid_in.alpha_min # None /\ grid_in.alpha_max # None
    /\ grid_in.alpha_min[1] > grid_in.alpha_max[1]
    /\ Len(grid) = MaxGridPoints
    /\ grid_in.variant = "gsvd"

----------------------------------------------------------------------------
(* Claims about gsvd and _csd *)

GsvdDone == gsvd_pc = "done"

\* C3: gsvd(A, B) with A.cols # B.cols ends in MatrixColumnMismatch for every
\* combination of the economy and values-only flags, before any QR
\* factorization and before _csd is entered; with equal column counts that
\* error is never raised.
C3_MismatchRejectedFirst ==
    /\ gsvd_in.p # gsvd_in.pb => qr_calls = 0 /\ csd_calls = 0 /\ csd_stack = EmptySeq
    /\ (GsvdDone /\ gsvd_in.p # gsvd_in.pb) =>
           gsvd_result.kind = "MatrixColumnMismatch"
    /\ gsvd_in.p = gsvd_in.pb => gsvd_result.kind # "MatrixColumnMismatch"

\* a values-only economy call with fewer columns in B was rejected
C3_Witness ==
    /\ GsvdDone
    /\ gsvd_in.pb < gsvd_in.p
    /\ gsvd_in.n > gsvd_in.p
    /\ ~gsvd_in.full_matrices /\ ~gsvd_in.compute_all
    /\ gsvd_result.kind = "MatrixColumnMismatch"

\* C4: for every well-formed input of _csd (Q1 m-by-p, Q2 n-by-p, m + n >= p,
\* stacked columns orthonormal) the call returns without raising: every index
\* it applies is in bounds, the swapped path (m < n) and the case n = 1 with
\* m < p included.
RaisedIn(where) ==
    /\ gsvd_result.kind \in {"IndexError", "ValueError", "MatrixColumnMismatch"}
    /\ gsvd_result.where = where

C4_CsdNeverRaises == ~RaisedIn("_csd")

\* C5: with equal column counts, gsvd in values-only mode, with or without
\* economy mode, returns a ratio vector of q = min(m+n, p) entries, numerator
\* and denominator both of q entries, and raises nothing, m > p and n > p
\* included.  (Stated for the calls whose _csd call returns.)
C5_ValuesOnlyLength ==
    (/\ GsvdDone
     /\ gsvd_in.p = gsvd_in.pb
     /\ ~gsvd_in.compute_all
     /\ ~RaisedIn("_csd")) =>
        /\ gsvd_result.kind = "values"
        /\ LET q == Min(gsvd_m + gsvd_n, gsvd_in.p)
           IN  /\ gsvd_result.numerator = q
               /\ gsvd_result.denominator = q
               /\ gsvd_result.sigma = q

----------------------------------------------------------------------------
(* Claims about corner_mdf_svd and corner_mdf_gsvd *)

MdfDone == mdf_pc = "done"

MdfTerminates == <>MdfDone

\* C12: whenever the fixed-point loop of corner_mdf_svd or corner_mdf_gsvd
\* has stopped, the last relative change is <= tol or counter has reached
\* maxiter: the loop never stops with the change outside the tolerance and
\* iterations left.
C12_StopsWithinTolOrBudget ==
    MdfDone => XLeq(change, mdf_in.tol) \/ counter >= mdf_in.maxiter

\* the loop never makes a pass once the change is within the tolerance, or
\* once the budget is used up
LoopContinuesOnlyOutsideTol ==
    [][(mdf_pc = "loop" /\ counter' = counter + 1) =>
           (~XLeq(change, mdf_in.tol) /\ counter < mdf_in.maxiter)]_vars

----------------------------------------------------------------------------
(* Claims about the split index and the recursion of _csd *)

\* the frames of _csd whose split index has been computed
SplitFrames ==
    {i \in 1..Len(csd_stack) : csd_stack[i].pc \in {"middle", "final", "finish"}}

\* C13: in a call of _csd that takes the path for m >= n, with m >= p and
\* min(m, p) > 1, the split index k is the number of entries of the cosine
\* diagonal that are <= 1/sqrt(2); k = 0 exactly when there is none.
C13_SplitIndexIsCount ==
    \A i \in SplitFrames :
        LET fr == csd_stack[i]
        IN  (fr.m >= fr.n /\ fr.m >= fr.p /\ Min(fr.m, fr.p) > 1) =>
                /\ fr.k = Cardinality(CosineAtMostHalf(fr.cdiag))
                /\ fr.k = 0 <=> CosineAtMostHalf(fr.cdiag) = {}

\* the same for diagonals with no entry, or more than one, at or below
\* 1/sqrt(2)
SplitIndexIsCountButForOne ==
    \A i \in SplitFrames :
        LET fr == csd_stack[i]
        IN  (/\ fr.m >= fr.n /\ fr.m >= fr.p /\ Min(fr.m, fr.p) > 1
             /\ Cardinality(CosineAtMostHalf(fr.cdiag)) # 1) =>
                fr.k = Cardinality(CosineAtMostHalf(fr.cdiag))

\* C14: the recursion of _csd has depth at most 1 for every input shape: a
\* call calls itself only when m < n, with the operands swapped, so that the
\* inner call has m >= n and makes no call of its own; every call of gsvd
\* runs _csd at most twice, and the recursion ends.
C14_RecursionDepthAtMostOne ==
    /\ Len(csd_stack) <= 2
    /\ csd_calls <= 2
    /\ \A i \in 1..Len(csd_stack) :
           csd_stack[i].pc \in {"wait", "unswap"} => csd_stack[i].m < csd_stack[i].n
    /\ Len(csd_stack) = 2 =>
           /\ csd_stack[1].pc = "wait"
           /\ csd_stack[2].m = csd_stack[1].n
           /\ csd_stack[2].n = csd_stack[1].m
           /\ csd_stack[2].m >= csd_stack[2].n
           /\ csd_stack[2].pc # "wait"
    /\ GsvdDone \/ ENABLED NextGsvd

\* the inner call of a swapped call has returned to its caller, which
\* reverses the factors
C14_Witness ==
    /\ CsdAt("unswap")
    /\ Len(csd_stack) = 1
    /\ csd_calls = 2
    /\ Top.m < Top.n
    /\ csd_ret.kind = "ok"

----------------------------------------------------------------------------
(* Claims about the arrays of a call *)

FxReturned == fx_pc = Len(fx_prog) + 1

\* C11: no public operation (gsvd with either economy setting and either
\* output mode, tikh_svd, tikh_gsvd, corner_maxcurv, corner_mdf_svd,
\* corner_mdf_gsvd) changes an array of its caller: during and after a call,
\* and after a sequence of calls on the same inputs, every input array is as
\* it was, and every in-place write, those of _diagp included, lands on an
\* array allocated inside the call.
C11_InputsNotModified ==
    /\ \A i \in 1..Len(fx_input) : fx_input[i] = 0
    /\ \A buf \in fx_written : buf.own = "local"

\* the last of the calls of gsvd in economy mode has returned: _diagp has
\* written the factors of both QR factorizations, and Q1 is still a view of
\* an array that was never written
C11_Witness ==
    /\ FxReturned
    /\ fx_call = MaxCalls
    /\ fx_in.op = "gsvd" /\ fx_in.econA /\ fx_in.econB /\ fx_in.swap
    /\ fx_env[<<"gsvd", "A">>] \in fx_written
    /\ fx_env[<<"gsvd", "A">>] # Caller(1)
    /\ fx_env[<<"_csd", "Q1">>] \notin fx_written

====
